---- MODULE Spec2Model ----
(***************************************************************************)
(* Transaction handles of mdbx-rs (src/src/transaction.rs): the handle's   *)
(* per-pointer mutex, its committed flag, the hand-off of read-write       *)
(* lifecycle calls to the transaction-manager thread, and the drop-time    *)
(* abort.  The storage engine and the manager's worker loop are not in     *)
(* transaction.rs; they are modelled from their documented contract.       *)
(***************************************************************************)
EXTENDS Integers, FiniteSets, Sequences, TLC

\* ------------------------------------------------------------------ bounds
NumThreads == 2
MaxTxn == 3
NumKeys == 2
NumVals == 2
MaxFaults == 1
NumDbis == 2

Threads == 1..NumThreads
Ptrs == 1..MaxTxn
Keys == 1..NumKeys
Vals == 1..NumVals
Dbis == 1..NumDbis

VARIABLES
    store,      \* engine: the committed key/value data
    dupsort,    \* engine: the database was created with DUP_SORT
    primed_dbis, \* per handle: the database handles primed on it, in insertion order
    estat,      \* engine: per pointer "free" | "open" | "committed" | "aborted"
    view,       \* engine: per pointer, the data the transaction sees (of a finished
                \* transaction: what it last saw, until its handle is gone)
    kind,       \* handle: per pointer "RO" | "RW" (TransactionKind)
    parent,     \* engine: per pointer, the parent pointer, 0 for top level
    hstat,      \* handle: "none" | "live" | "moved" (inside commit/drop) | "gone"
    committed,  \* handle: the committed flag
    lock,       \* handle: holder of the pointer's mutex, 0 when free
    msgs,       \* manager channel: requests whose sender is blocked in send
    mgr,        \* manager: the message being processed, NoMsg when idle, Stopped
                \* once the worker has terminated
    rx,         \* per thread: the reply waiting on its rendezvous channel
    pc,         \* per thread: where it is
    cur,        \* per thread: the pointer it is working on
    arg,        \* per thread: the data operation in progress
    last,       \* the value returned to a caller by the step just taken
    faults,     \* engine errors still to be injected
    nCommit,    \* history: engine commit calls per pointer
    nAbort,     \* history: engine abort calls per pointer
    invoked,    \* history: pointers on whose handle commit() was called
    acked,      \* history: the data as of the last commit() that returned success
    step        \* per thread: position in a scripted scenario

vars == <<store, dupsort, primed_dbis, estat, view, kind, parent, hstat, committed, lock,
          msgs, mgr, rx, pc, cur, arg, last, faults, nCommit, nAbort, invoked,
          acked, step>>

engineVars == <<store, estat, view, parent>>
histVars == <<nCommit, nAbort, acked>>

\* ------------------------------------------------------------- values
EmptyData == [k \in Keys |-> {}]
NoMsg == [type |-> "None", ptr |-> 0, from |-> 0]
\* The value of mgr once the manager's worker has terminated.
Stopped == [type |-> "Stopped", ptr |-> 0, from |-> 0]
NoReply == [for |-> NoMsg, code |-> "", ok |-> FALSE, val |-> 0, err |-> ""]
NoArg == [op |-> "none", key |-> 0, val |-> 0]
NoStep == [at |-> 0, txn |-> 0, phase |-> ""]
NoRet ==
    [op |-> "none", ptr |-> 0, key |-> 0, code |-> "", ok |-> FALSE, val |-> 0,
     err |-> "", dbs |-> <<>>]

Ok(v) == [ok |-> TRUE, val |-> v, err |-> ""]
Err(e) == [ok |-> FALSE, val |-> 0, err |-> e]

Min(S) == CHOOSE x \in S : \A y \in S : x <= y

RECURSIVE SumCard(_, _)
SumCard(d, ks) ==
    IF ks = {} THEN 0
    ELSE LET k == CHOOSE x \in ks : TRUE
         IN Cardinality(d[k]) + SumCard(d, ks \ {k})

\* ------------------------------------------------------------- TransactionKind
ONLY_CLEAN_Always(k) == TRUE

ONLY_CLEAN_Never(k) == FALSE

ONLY_CLEAN(k) == k = "RO"

\* ------------------------------------------------------------- engine
\* Error codes the engine may report besides NOTFOUND.
EngineErrors == {"MAP_FULL"}

\* The codes one engine call may return: its regular code, or an injected error.
Codes(regular) == {regular} \cup (IF faults > 0 THEN EngineErrors ELSE {})
Spend(code) == IF code \in EngineErrors THEN faults - 1 ELSE faults

mdbx_result(code) ==
    CASE code = "SUCCESS" -> Ok(0)
      [] code = "RESULT_TRUE" -> Ok(1)
      [] OTHER -> Err(code)

mdbx_get(d, k) ==
    IF d[k] = {} THEN [code |-> "NOTFOUND", val |-> 0]
    ELSE [code |-> "SUCCESS", val |-> Min(d[k])]

mdbx_put(d, k, v) ==
    [d EXCEPT ![k] = IF dupsort THEN @ \cup {v} ELSE {v}]

\* data = 0 is the null data pointer: every value of the key.
mdbx_del_code(d, k, data) ==
    IF d[k] = {} \/ (data # 0 /\ data \notin d[k]) THEN "NOTFOUND" ELSE "SUCCESS"

mdbx_del(d, k, data) ==
    [d EXCEPT ![k] = IF data = 0 THEN {} ELSE @ \ {data}]

mdbx_drop(d) == EmptyData

mdbx_dbi_stat(d) == SumCard(d, Keys)

FreePtrs == {p \in Ptrs : estat[p] = "free"}
NewPtr == Min(FreePtrs)

\* The engine's single-writer exclusion: one top-level write transaction.
WriterOpen == \E p \in Ptrs : estat[p] = "open" /\ kind[p] = "RW" /\ parent[p] = 0

\* The engine state after begin(parent, flags) has succeeded with pointer c.
EngineBegin(c, par) ==
    /\ estat' = [estat EXCEPT ![c] = "open"]
    /\ view' = [view EXCEPT ![c] = IF par = 0 THEN store ELSE view[par]]
    /\ parent' = [parent EXCEPT ![c] = par]
    /\ store' = store

\* The engine state after commit(p) returned code.
EngineCommit(p, code) ==
    IF code \in EngineErrors
    THEN /\ estat' = [estat EXCEPT ![p] = "aborted"]
         /\ UNCHANGED <<store, view, parent>>
    ELSE /\ estat' = [estat EXCEPT ![p] = "committed"]
         /\ store' = IF kind[p] = "RW" /\ parent[p] = 0 THEN view[p] ELSE store
         /\ view' = [q \in Ptrs |-> IF q = parent[p] THEN view[p] ELSE view[q]]
         /\ UNCHANGED parent

\* The engine state after abort(p).
EngineAbort(p) ==
    /\ estat' = [estat EXCEPT ![p] = "aborted"]
    /\ UNCHANGED <<store, view, parent>>

\* ------------------------------------------------------------- handle helpers
\* The borrows Rust's ownership rules allow.  A child handle holds the &mut
\* borrow of its parent (begin_nested_txn(&mut self) -> Transaction<'_>).
HasChild_Never(p) == FALSE

HasChild(p) == \E c \in Ptrs : parent[c] = p /\ hstat[c] \in {"live", "moved"}
SharedBy(p) == \E t \in Threads : pc[t] = "op" /\ cur[t] = p
MutBy(p) == \E t \in Threads : pc[t] = "nested_wait" /\ cur[t] = p

\* A shared borrow of the handle can be taken (&self operations).
Usable(p) == hstat[p] = "live" /\ ~HasChild(p) /\ ~MutBy(p)
\* The handle can be moved or mutably borrowed (commit(self), drop, &mut self).
Owned(p) == Usable(p) /\ ~SharedBy(p)

LockFree_None(p) == TRUE

\* txn.lock(): the caller proceeds once the pointer's mutex is free.
LockFree(p) == lock[p] = 0

HeldAfterSend_Released(t) == 0

\* The holder of the mutex once the message is sent: the guard (txnlck, or lck
\* of txn_execute) lives until the function returns, past rx.recv().
HeldAfterSend(t) == t

\* The state when the environment has been opened: no transaction, the manager
\* idle, f engine errors to come, the database duplicate-sorted or not.
StartWith(f, ds) ==
    /\ store = EmptyData
    /\ dupsort = ds
    /\ primed_dbis = [p \in Ptrs |-> <<>>]
    /\ estat = [p \in Ptrs |-> "free"]
    /\ view = [p \in Ptrs |-> EmptyData]
    /\ kind = [p \in Ptrs |-> "RO"]
    /\ parent = [p \in Ptrs |-> 0]
    /\ hstat = [p \in Ptrs |-> "none"]
    /\ committed = [p \in Ptrs |-> FALSE]
    /\ lock = [p \in Ptrs |-> 0]
    /\ msgs = {}
    /\ mgr = NoMsg
    /\ rx = [t \in Threads |-> NoReply]
    /\ pc = [t \in Threads |-> "idle"]
    /\ cur = [t \in Threads |-> 0]
    /\ arg = [t \in Threads |-> NoArg]
    /\ last = NoRet
    /\ faults = f
    /\ nCommit = [p \in Ptrs |-> 0]
    /\ nAbort = [p \in Ptrs |-> 0]
    /\ invoked = {}
    /\ acked = EmptyData
    /\ step = [t \in Threads |-> NoStep]

\* The default database of the tests: created without DUP_SORT.
Start(f) == StartWith(f, FALSE)

Init == Start(MaxFaults)


\* What a call returned: r is the Result handed to the caller, code the return
\* code of the engine call behind it.
Ret(op, p, k, code, r) ==
    [op |-> op, ptr |-> p, key |-> k, code |-> code,
     ok |-> r.ok, val |-> r.val, err |-> r.err, dbs |-> <<>>]

\* ------------------------------------------------------------- begin
new_from_ptr_Committed(c) ==
    /\ hstat' = [hstat EXCEPT ![c] = "live"]
    /\ committed' = [committed EXCEPT ![c] = TRUE]
    /\ primed_dbis' = [primed_dbis EXCEPT ![c] = <<>>]

\* Transaction::new_from_ptr: a handle around pointer c, committed = false and
\* an empty primed set.
new_from_ptr(c) ==
    /\ hstat' = [hstat EXCEPT ![c] = "live"]
    /\ committed' = [committed EXCEPT ![c] = FALSE]
    /\ primed_dbis' = [primed_dbis EXCEPT ![c] = <<>>]

\* Transaction::new: the engine's begin, called on the calling thread.  A
\* read-write begin waits in the engine while another writer is open.
BeginTxn(t, k) ==
    /\ pc[t] = "idle"
    /\ FreePtrs # {}
    /\ k = "RW" => ~WriterOpen
    /\ \E code \in Codes("SUCCESS") :
          /\ faults' = Spend(code)
          /\ IF code = "SUCCESS"
             THEN /\ EngineBegin(NewPtr, 0)
                  /\ kind' = [kind EXCEPT ![NewPtr] = k]
                  /\ new_from_ptr(NewPtr)
                  /\ last' = Ret("begin", NewPtr, 0, code, Ok(NewPtr))
             ELSE /\ UNCHANGED <<engineVars, kind, hstat, committed, primed_dbis>>
                  /\ last' = Ret("begin", 0, 0, code, mdbx_result(code))
    /\ UNCHANGED <<dupsort, lock, msgs, mgr, rx, pc, cur, arg, histVars, invoked>>

\* ------------------------------------------------------------- data operations
get_result_Garbage(r) ==
    CASE r.code = "SUCCESS" -> Ok(r.val)
      [] r.code = "NOTFOUND" -> Ok(1)
      [] OTHER -> Err(r.code)

get_result_NotFoundErr(r) ==
    CASE r.code = "SUCCESS" -> Ok(r.val)
      [] OTHER -> Err(r.code)

\* Transaction::get: the match on the engine's return code.
get_result(r) ==
    CASE r.code = "SUCCESS" -> Ok(r.val)
      [] r.code = "NOTFOUND" -> Ok(0)
      [] OTHER -> Err(r.code)

\* Transaction::put / clear_db: mdbx_result(..)?; Ok(())
unit_result(code) ==
    IF mdbx_result(code).ok THEN Ok(0) ELSE mdbx_result(code)

del_result_True(code) ==
    IF mdbx_result(code).ok \/ code = "NOTFOUND" THEN Ok(1) ELSE mdbx_result(code)

\* Transaction::del: .map(|_| true).or_else(NotFound => Ok(false))
del_result(code) ==
    IF mdbx_result(code).ok THEN Ok(1)
    ELSE IF code = "NOTFOUND" THEN Ok(0)
    ELSE mdbx_result(code)

stat_result_Fresh(code, entries) ==
    IF mdbx_result(code).ok THEN Ok(0) ELSE mdbx_result(code)

\* Transaction::db_stat: mdbx_result(..)?; Ok(stat)
stat_result(code, entries) ==
    IF mdbx_result(code).ok THEN Ok(entries) ELSE mdbx_result(code)

\* Transaction::db_flags: mdbx_result(..)?; Ok(from_bits_truncate(flags))
flags_result(code, flags) ==
    IF mdbx_result(code).ok THEN Ok(flags) ELSE mdbx_result(code)

\* The engine call an operation makes: its regular return code, its effect on
\* the transaction's data, and the operation's result for a return code.
\* mdbx_txn_id returns the id itself, not a return code.
OpRegular(a, d) ==
    CASE a.op = "get" -> mdbx_get(d, a.key).code
      [] a.op = "del" -> mdbx_del_code(d, a.key, a.val)
      [] OTHER -> "SUCCESS"

OpCodes(a, d) ==
    IF a.op = "id" THEN {"SUCCESS"} ELSE Codes(OpRegular(a, d))

OpEffect(a, d) ==
    CASE a.op = "put" -> mdbx_put(d, a.key, a.val)
      [] a.op = "reserve" -> mdbx_put(d, a.key, a.val)
      [] a.op = "del" -> mdbx_del(d, a.key, a.val)
      [] a.op = "clear_db" -> mdbx_drop(d)
      [] OTHER -> d

OpResult(a, code, d) ==
    CASE a.op = "get" -> get_result([code |-> code, val |-> mdbx_get(d, a.key).val])
      [] a.op = "del" -> del_result(code)
      [] a.op = "db_stat" -> stat_result(code, mdbx_dbi_stat(d))
      [] a.op = "db_flags" -> flags_result(code, IF dupsort THEN 1 ELSE 0)
      [] a.op = "id" -> Ok(a.val)
      [] OTHER -> unit_result(code)

\* txn_execute, first half: take the pointer's mutex and enter the engine call.
txn_execute(t, p, a) ==
    /\ pc[t] = "idle"
    /\ Usable(p)
    /\ LockFree(p)
    /\ lock' = [lock EXCEPT ![p] = t]
    /\ pc' = [pc EXCEPT ![t] = "op"]
    /\ cur' = [cur EXCEPT ![t] = p]
    /\ arg' = [arg EXCEPT ![t] = a]
    /\ last' = NoRet
    /\ UNCHANGED <<engineVars, dupsort, primed_dbis, kind, hstat, committed, msgs, mgr, rx, faults,
                   histVars, invoked>>

Get(t, p, k) == txn_execute(t, p, [op |-> "get", key |-> k, val |-> 0])

Put(t, p, k, v) ==
    /\ kind[p] = "RW"
    /\ txn_execute(t, p, [op |-> "put", key |-> k, val |-> v])

Del(t, p, k, data) ==
    /\ kind[p] = "RW"
    /\ txn_execute(t, p, [op |-> "del", key |-> k, val |-> data])

ClearDb(t, p) ==
    /\ kind[p] = "RW"
    /\ txn_execute(t, p, [op |-> "clear_db", key |-> 0, val |-> 0])

DbStat(t, p) == txn_execute(t, p, [op |-> "db_stat", key |-> 0, val |-> 0])

DbFlags(t, p) == txn_execute(t, p, [op |-> "db_flags", key |-> 0, val |-> 0])

\* Transaction::id: the engine's id of the transaction, here its pointer.
Id(t, p) == txn_execute(t, p, [op |-> "id", key |-> 0, val |-> p])

\* Transaction::reserve: mdbx_put with MDBX_RESERVE; v is what the caller
\* writes into the buffer it gets back.
Reserve(t, p, k, v) ==
    /\ kind[p] = "RW"
    /\ txn_execute(t, p, [op |-> "reserve", key |-> k, val |-> v])

\* txn_execute, second half: the engine call returns, the guard is dropped and
\* the operation maps the return code to its result.
OpReturn(t) ==
    /\ pc[t] = "op"
    /\ LET p == cur[t]
           a == arg[t]
       IN \E code \in OpCodes(a, view[p]) :
             /\ faults' = Spend(code)
             /\ view' = [view EXCEPT ![p] =
                            IF code = "SUCCESS" THEN OpEffect(a, view[p]) ELSE @]
             /\ last' = Ret(a.op, p, a.key, code, OpResult(a, code, view[p]))
             /\ lock' = [lock EXCEPT ![p] = 0]
    /\ pc' = [pc EXCEPT ![t] = "idle"]
    /\ cur' = [cur EXCEPT ![t] = 0]
    /\ arg' = [arg EXCEPT ![t] = NoArg]
    /\ UNCHANGED <<store, estat, parent, dupsort, primed_dbis, kind, hstat, committed, msgs, mgr,
                   rx, histVars, invoked>>

\* ------------------------------------------------------------- manager messages
CommitMsg_Abort(t, p) == [type |-> "Abort", ptr |-> p, from |-> t]

CommitMsg_OtherSender(t, p) ==
    [type |-> "Commit", ptr |-> p, from |-> (t % NumThreads) + 1]

\* TxnManagerMessage::Commit { tx: TxnPtr(txn), sender }
CommitMsg(t, p) == [type |-> "Commit", ptr |-> p, from |-> t]

AbortMsg_Commit(t, p) == [type |-> "Commit", ptr |-> p, from |-> t]

\* TxnManagerMessage::Abort { tx: TxnPtr(txn), sender }
AbortMsg(t, p) == [type |-> "Abort", ptr |-> p, from |-> t]

BeginMsg_Top(t, p) == [type |-> "Begin", ptr |-> 0, from |-> t]

\* TxnManagerMessage::Begin { parent: TxnPtr(txn), flags, sender }
BeginMsg(t, p) == [type |-> "Begin", ptr |-> p, from |-> t]

\* rx.recv(): the reply is there, and the Result it carries.
Replied(t) == rx[t] # NoReply
Reply(t) == [ok |-> rx[t].ok, val |-> rx[t].val, err |-> rx[t].err]

\* The codes the engine's commit may return.
CommitCodes == Codes("SUCCESS") \cup {"RESULT_TRUE"}

\* The handle is destroyed: the engine keeps nothing of its transaction.
Gone(p) ==
    /\ hstat' = [hstat EXCEPT ![p] = "gone"]
    /\ view' = [view EXCEPT ![p] = EmptyData]

\* ------------------------------------------------------------- priming
Range(s) == {s[i] : i \in DOMAIN s}

insert_Append(s, dbi) == Append(s, dbi)

\* IndexSet::insert: a new element goes to the end, a present one stays.
insert(s, dbi) == IF dbi \in Range(s) THEN s ELSE Append(s, dbi)

\* prime_for_permaopen(&self, db): self.primed_dbis.lock().insert(db.dbi())
PrimeForPermaopen(t, p, dbi) ==
    /\ pc[t] = "idle"
    /\ Usable(p)
    /\ primed_dbis' = [primed_dbis EXCEPT ![p] = insert(@, dbi)]
    /\ last' = Ret("prime_for_permaopen", p, dbi, "", Ok(0))
    /\ UNCHANGED <<engineVars, dupsort, kind, hstat, committed, lock, msgs, mgr, rx, pc,
                   cur, arg, faults, histVars, invoked>>

\* ------------------------------------------------------------- commit
CommittedAfter_OnSuccess(result) == result.ok

\* self.committed = true, after the commit call whatever its result.
CommittedAfter(result) == TRUE

rebind_Always(result, primed) == primed

\* result.map(|v| (v, primed_dbis.iter().map(new_from_ptr).collect())): the
\* database handles commit_and_rebind_open_dbs returns beside the commit's value.
rebind(result, primed) == IF result.ok THEN primed ELSE <<>>

commit_value_Swallow(result) == IF result.ok THEN result ELSE Ok(0)

\* commit(): self.commit_and_rebind_open_dbs().map(|v| v.0)
commit_value(result) == result

\* commit_and_rebind_open_dbs up to the engine call or the send: the mutex is
\* taken, and a read-write handle sends Commit to the manager.
CommitStart(t, p) ==
    /\ pc[t] = "idle"
    /\ Owned(p)
    /\ LockFree(p)
    /\ lock' = [lock EXCEPT ![p] = IF ONLY_CLEAN(kind[p]) THEN t ELSE HeldAfterSend(t)]
    /\ hstat' = [hstat EXCEPT ![p] = "moved"]
    /\ invoked' = invoked \cup {p}
    /\ cur' = [cur EXCEPT ![t] = p]
    /\ IF ONLY_CLEAN(kind[p])
       THEN /\ pc' = [pc EXCEPT ![t] = "direct_commit"]
            /\ msgs' = msgs
       ELSE /\ pc' = [pc EXCEPT ![t] = "commit_wait"]
            /\ msgs' = msgs \cup {CommitMsg(t, p)}
    /\ last' = NoRet
    /\ UNCHANGED <<engineVars, dupsort, primed_dbis, kind, committed, mgr, rx, arg, faults,
                   histVars>>

\* commit_and_rebind_open_dbs after the result is known: the flag is set, the
\* result is mapped and the guard goes out of scope; self is dropped next.
CommitTail(t, p, code, result) ==
    /\ committed' = [committed EXCEPT ![p] = IF CommittedAfter(result) THEN TRUE ELSE @]
    /\ last' = [Ret("commit", p, 0, code, commit_value(result))
                   EXCEPT !.dbs = rebind(result, primed_dbis[p])]
    /\ acked' = IF result.ok /\ kind[p] = "RW" /\ parent[p] = 0 THEN view[p] ELSE acked
    /\ lock' = [lock EXCEPT ![p] = 0]
    /\ pc' = [pc EXCEPT ![t] = "commit_ret"]

\* The direct mdbx_txn_commit_ex of a read-only handle returns.
DirectCommitReturn(t) ==
    /\ pc[t] = "direct_commit"
    /\ \E code \in CommitCodes :
          /\ faults' = Spend(code)
          /\ EngineCommit(cur[t], code)
          /\ CommitTail(t, cur[t], code, mdbx_result(code))
    /\ nCommit' = [nCommit EXCEPT ![cur[t]] = @ + 1]
    /\ UNCHANGED <<dupsort, primed_dbis, kind, hstat, msgs, mgr, rx, cur, arg, nAbort, invoked>>

\* rx.recv().unwrap() in commit_and_rebind_open_dbs.
CommitRecv(t) ==
    /\ pc[t] = "commit_wait"
    /\ Replied(t)
    /\ CommitTail(t, cur[t], rx[t].code, Reply(t))
    /\ rx' = [rx EXCEPT ![t] = NoReply]
    /\ UNCHANGED <<engineVars, dupsort, primed_dbis, kind, hstat, msgs, mgr, cur, arg, faults,
                   nCommit, nAbort, invoked>>

\* ------------------------------------------------------------- drop
DropAborts_Never(p) == FALSE

\* Drop::drop: if !self.committed
DropAborts(p) == ~committed[p]

\* Drop::drop up to the engine call or the send.  The handle dropped is one
\* nobody borrows, or the self of the commit that has just finished.
Drop(t, p) ==
    /\ \/ pc[t] = "idle" /\ Owned(p)
       \/ pc[t] = "commit_ret" /\ cur[t] = p
    /\ LockFree(p)
    /\ IF ~DropAborts(p)
       THEN /\ Gone(p)
            /\ pc' = [pc EXCEPT ![t] = "idle"]
            /\ cur' = [cur EXCEPT ![t] = 0]
            /\ UNCHANGED <<lock, msgs>>
       ELSE /\ hstat' = [hstat EXCEPT ![p] = "moved"]
            /\ lock' = [lock EXCEPT ![p] =
                            IF ONLY_CLEAN(kind[p]) THEN t ELSE HeldAfterSend(t)]
            /\ cur' = [cur EXCEPT ![t] = p]
            /\ view' = view
            /\ IF ONLY_CLEAN(kind[p])
               THEN /\ pc' = [pc EXCEPT ![t] = "direct_abort"]
                    /\ msgs' = msgs
               ELSE /\ pc' = [pc EXCEPT ![t] = "drop_wait"]
                    /\ msgs' = msgs \cup {AbortMsg(t, p)}
    /\ last' = NoRet
    /\ UNCHANGED <<store, estat, parent, dupsort, primed_dbis, kind, committed, mgr, rx, arg, faults,
                   histVars, invoked>>

\* The direct mdbx_txn_abort of a read-only handle returns; its code is dropped.
DirectAbortReturn(t) ==
    /\ pc[t] = "direct_abort"
    /\ \E code \in Codes("SUCCESS") :
          /\ faults' = Spend(code)
          /\ last' = Ret("drop", cur[t], 0, code, Ok(0))
    /\ estat' = [estat EXCEPT ![cur[t]] = "aborted"]
    /\ Gone(cur[t])
    /\ nAbort' = [nAbort EXCEPT ![cur[t]] = @ + 1]
    /\ lock' = [lock EXCEPT ![cur[t]] = 0]
    /\ pc' = [pc EXCEPT ![t] = "idle"]
    /\ cur' = [cur EXCEPT ![t] = 0]
    /\ UNCHANGED <<store, parent, dupsort, primed_dbis, kind, committed, msgs, mgr, rx, arg, nCommit,
                   acked, invoked>>

abort_unwrap_Ignore(r) == TRUE

\* The second unwrap of rx.recv().unwrap().unwrap(): drop goes on with an Ok
\* reply only.
abort_unwrap(r) == r.ok

\* rx.recv().unwrap().unwrap() in Drop::drop: an error reply panics.
DropRecv(t) ==
    /\ pc[t] = "drop_wait"
    /\ Replied(t)
    /\ Gone(cur[t])
    /\ lock' = [lock EXCEPT ![cur[t]] = 0]
    /\ last' = Ret(IF abort_unwrap(Reply(t)) THEN "drop" ELSE "panic", cur[t], 0,
                   rx[t].code, Reply(t))
    /\ pc' = [pc EXCEPT ![t] = IF abort_unwrap(Reply(t)) THEN "idle" ELSE "panicked"]
    /\ cur' = [cur EXCEPT ![t] = 0]
    /\ rx' = [rx EXCEPT ![t] = NoReply]
    /\ UNCHANGED <<store, estat, parent, dupsort, primed_dbis, kind, committed, msgs, mgr, arg,
                   faults, histVars, invoked>>

\* ------------------------------------------------------------- nested begin
\* begin_nested_txn up to the send: inside txn_execute, Begin goes to the manager.
BeginNested(t, p) ==
    /\ pc[t] = "idle"
    /\ Owned(p)
    /\ kind[p] = "RW"
    /\ FreePtrs # {}
    /\ LockFree(p)
    /\ lock' = [lock EXCEPT ![p] = HeldAfterSend(t)]
    /\ msgs' = msgs \cup {BeginMsg(t, p)}
    /\ pc' = [pc EXCEPT ![t] = "nested_wait"]
    /\ cur' = [cur EXCEPT ![t] = p]
    /\ last' = NoRet
    /\ UNCHANGED <<engineVars, dupsort, primed_dbis, kind, hstat, committed, mgr, rx, arg, faults,
                   histVars, invoked>>

\* rx.recv().unwrap().map(|ptr| Transaction::new_from_ptr(..)) and the unlock.
NestedRecv(t) ==
    /\ pc[t] = "nested_wait"
    /\ Replied(t)
    /\ IF rx[t].ok
       THEN new_from_ptr(rx[t].val)
       ELSE UNCHANGED <<hstat, committed, primed_dbis>>
    /\ last' = Ret("begin_nested", IF rx[t].ok THEN rx[t].val ELSE 0, 0, rx[t].code,
                   Reply(t))
    /\ lock' = [lock EXCEPT ![cur[t]] = 0]
    /\ pc' = [pc EXCEPT ![t] = "idle"]
    /\ cur' = [cur EXCEPT ![t] = 0]
    /\ rx' = [rx EXCEPT ![t] = NoReply]
    /\ UNCHANGED <<engineVars, dupsort, kind, msgs, mgr, arg, faults, histVars,
                   invoked>>

\* ------------------------------------------------------------- manager
\* The worker takes the next message; its sender's send returns.
MgrRecv ==
    /\ mgr = NoMsg
    /\ \E m \in msgs :
          /\ mgr' = m
          /\ msgs' = msgs \ {m}
    /\ last' = NoRet
    /\ UNCHANGED <<engineVars, dupsort, primed_dbis, kind, hstat, committed, lock, rx, pc, cur, arg,
                   faults, histVars, invoked>>

\* sender.send(result): the reply is in the sender's channel until its recv
\* takes it.
SendReply(m, code, r) ==
    rx' = [rx EXCEPT ![m.from] =
              [for |-> m, code |-> code, ok |-> r.ok, val |-> r.val, err |-> r.err]]

\* The worker makes the engine call of the message and sends the reply.
MgrReply ==
    /\ mgr \notin {NoMsg, Stopped}
    /\ LET m == mgr IN
       CASE m.type = "Begin" ->
              \E code \in (IF FreePtrs = {} THEN EngineErrors ELSE Codes("SUCCESS")) :
                 /\ faults' = IF FreePtrs = {} THEN faults ELSE Spend(code)
                 /\ IF code = "SUCCESS"
                    THEN /\ EngineBegin(NewPtr, m.ptr)
                         /\ kind' = [kind EXCEPT ![NewPtr] = "RW"]
                         /\ SendReply(m, code, Ok(NewPtr))
                    ELSE /\ UNCHANGED <<engineVars, kind>>
                         /\ SendReply(m, code, mdbx_result(code))
                 /\ UNCHANGED <<nCommit, nAbort>>
         [] m.type = "Commit" ->
              \E code \in CommitCodes :
                 /\ faults' = Spend(code)
                 /\ EngineCommit(m.ptr, code)
                 /\ SendReply(m, code, mdbx_result(code))
                 /\ nCommit' = [nCommit EXCEPT ![m.ptr] = @ + 1]
                 /\ UNCHANGED <<kind, nAbort>>
         [] OTHER ->
              \E code \in Codes("SUCCESS") :
                 /\ faults' = Spend(code)
                 /\ EngineAbort(m.ptr)
                 /\ SendReply(m, code, mdbx_result(code))
                 /\ nAbort' = [nAbort EXCEPT ![m.ptr] = @ + 1]
                 /\ UNCHANGED <<kind, nCommit>>
    /\ mgr' = NoMsg
    /\ last' = NoRet
    /\ UNCHANGED <<dupsort, primed_dbis, hstat, committed, lock, msgs, pc, cur, arg, invoked, acked>>

\* The worker's loop ends, between two messages: nothing receives any more.
MgrStop ==
    /\ mgr = NoMsg
    /\ mgr' = Stopped
    /\ last' = NoRet
    /\ UNCHANGED <<engineVars, dupsort, primed_dbis, kind, hstat, committed, lock, msgs, rx, pc, cur,
                   arg, faults, histVars, invoked>>

\* ------------------------------------------------------------- failed send
send_unwrap_Ignore(sent) == IF sent THEN "sent" ELSE "done"

\* .send(TxnManagerMessage::..).unwrap(): a send that fails panics.
send_unwrap(sent) == IF sent THEN "sent" ELSE "panic"

\* The operation thread t is blocked in.
WaitingOp(t) ==
    CASE pc[t] = "commit_wait" -> "commit"
      [] pc[t] = "drop_wait" -> "drop"
      [] OTHER -> "begin_nested"

\* The send of a thread whose message nobody received fails once the worker
\* has terminated; the panic unwinds through the guard, which unlocks.
SendFail(t) ==
    /\ pc[t] \in {"commit_wait", "drop_wait", "nested_wait"}
    /\ mgr = Stopped
    /\ \E m \in msgs :
          /\ m.from = t
          /\ msgs' = msgs \ {m}
    /\ lock' = [lock EXCEPT ![cur[t]] = 0]
    /\ IF send_unwrap(FALSE) = "panic"
       THEN /\ pc' = [pc EXCEPT ![t] = "panicked"]
            /\ last' = Ret("panic", cur[t], 0, "SEND_ERROR", Err("SEND_ERROR"))
       ELSE /\ pc' = [pc EXCEPT ![t] = "idle"]
            /\ last' = Ret(WaitingOp(t), cur[t], 0, "SEND_ERROR", Ok(0))
    /\ cur' = [cur EXCEPT ![t] = 0]
    /\ UNCHANGED <<engineVars, dupsort, primed_dbis, kind, hstat, committed, mgr, rx, arg, faults,
                   histVars, invoked>>

\* ------------------------------------------------------------- specifications
Kinds == {"RO", "RW"}

\* Spec: every thread uses every handle (handles are Send and Sync), with engine
\* errors.  Its data operations all go to one key with one value; SpecData
\* draws them from all keys and values.
Next ==
    \/ \E t \in Threads, k \in Kinds : BeginTxn(t, k) /\ UNCHANGED step
    \/ \E t \in Threads, p \in Ptrs : Get(t, p, 1) /\ UNCHANGED step
    \/ \E t \in Threads, p \in Ptrs : Put(t, p, 1, 1) /\ UNCHANGED step
    \/ \E t \in Threads : OpReturn(t) /\ UNCHANGED step
    \/ \E t \in Threads, p \in Ptrs : CommitStart(t, p) /\ UNCHANGED step
    \/ \E t \in Threads : DirectCommitReturn(t) /\ UNCHANGED step
    \/ \E t \in Threads : CommitRecv(t) /\ UNCHANGED step
    \/ \E t \in Threads, p \in Ptrs : Drop(t, p) /\ UNCHANGED step
    \/ \E t \in Threads : DirectAbortReturn(t) /\ UNCHANGED step
    \/ \E t \in Threads : DropRecv(t) /\ UNCHANGED step
    \/ \E t \in Threads, p \in Ptrs : BeginNested(t, p) /\ UNCHANGED step
    \/ \E t \in Threads : NestedRecv(t) /\ UNCHANGED step
    \/ MgrRecv /\ UNCHANGED step
    \/ MgrReply /\ UNCHANGED step

Spec == Init /\ [][Next]_vars

\* SpecData: one thread, every data operation on every key and value.
DataNext ==
    \/ \E k \in Kinds : BeginTxn(1, k) /\ UNCHANGED step
    \/ \E p \in Ptrs, k \in Keys : Get(1, p, k) /\ UNCHANGED step
    \/ \E p \in Ptrs, k \in Keys, v \in Vals : Put(1, p, k, v) /\ UNCHANGED step
    \/ \E p \in Ptrs, k \in Keys, d \in Vals \cup {0} : Del(1, p, k, d) /\ UNCHANGED step
    \/ \E p \in Ptrs : ClearDb(1, p) /\ UNCHANGED step
    \/ \E p \in Ptrs : DbStat(1, p) /\ UNCHANGED step
    \/ OpReturn(1) /\ UNCHANGED step
    \/ \E p \in Ptrs : CommitStart(1, p) /\ UNCHANGED step
    \/ DirectCommitReturn(1) /\ UNCHANGED step
    \/ CommitRecv(1) /\ UNCHANGED step
    \/ \E p \in Ptrs : Drop(1, p) /\ UNCHANGED step
    \/ DirectAbortReturn(1) /\ UNCHANGED step
    \/ DropRecv(1) /\ UNCHANGED step
    \/ \E p \in Ptrs : BeginNested(1, p) /\ UNCHANGED step
    \/ NestedRecv(1) /\ UNCHANGED step
    \/ MgrRecv /\ UNCHANGED step
    \/ MgrReply /\ UNCHANGED step

SpecData == Init /\ [][DataNext]_vars

\* SpecDup: one thread on a database created with DUP_SORT (test_put_get_del_multi,
\* test_stat_dupsort), every data operation on every key and value.
DupNext ==
    \/ \E k \in Kinds : BeginTxn(1, k) /\ UNCHANGED step
    \/ \E p \in Ptrs, k \in Keys : Get(1, p, k) /\ UNCHANGED step
    \/ \E p \in Ptrs, k \in Keys, v \in Vals : Put(1, p, k, v) /\ UNCHANGED step
    \/ \E p \in Ptrs, k \in Keys, d \in Vals \cup {0} : Del(1, p, k, d) /\ UNCHANGED step
    \/ \E p \in Ptrs : ClearDb(1, p) /\ UNCHANGED step
    \/ \E p \in Ptrs : DbStat(1, p) /\ UNCHANGED step
    \/ OpReturn(1) /\ UNCHANGED step
    \/ \E p \in Ptrs : CommitStart(1, p) /\ UNCHANGED step
    \/ DirectCommitReturn(1) /\ UNCHANGED step
    \/ CommitRecv(1) /\ UNCHANGED step
    \/ \E p \in Ptrs : Drop(1, p) /\ UNCHANGED step
    \/ DirectAbortReturn(1) /\ UNCHANGED step
    \/ DropRecv(1) /\ UNCHANGED step
    \/ MgrRecv /\ UNCHANGED step
    \/ MgrReply /\ UNCHANGED step

SpecDup == StartWith(MaxFaults, TRUE) /\ [][DupNext]_vars

\* SpecTeardown: read-write handles used by every thread while the manager's
\* worker may terminate at any time it is idle.
TeardownNext ==
    \/ \E t \in Threads : BeginTxn(t, "RW") /\ UNCHANGED step
    \/ \E t \in Threads, p \in Ptrs : Put(t, p, 1, 1) /\ UNCHANGED step
    \/ \E t \in Threads : OpReturn(t) /\ UNCHANGED step
    \/ \E t \in Threads, p \in Ptrs : CommitStart(t, p) /\ UNCHANGED step
    \/ \E t \in Threads : CommitRecv(t) /\ UNCHANGED step
    \/ \E t \in Threads, p \in Ptrs : Drop(t, p) /\ UNCHANGED step
    \/ \E t \in Threads : DropRecv(t) /\ UNCHANGED step
    \/ \E t \in Threads, p \in Ptrs : BeginNested(t, p) /\ UNCHANGED step
    \/ \E t \in Threads : NestedRecv(t) /\ UNCHANGED step
    \/ \E t \in Threads : SendFail(t) /\ UNCHANGED step
    \/ MgrRecv /\ UNCHANGED step
    \/ MgrReply /\ UNCHANGED step
    \/ MgrStop /\ UNCHANGED step

SpecTeardown == Init /\ [][TeardownNext]_vars

\* SpecOps: every thread uses every handle with each of the eight operations
\* that go through txn_execute, next to the lifecycle operations.
OpsNext ==
    \/ \E t \in Threads, k \in Kinds : BeginTxn(t, k) /\ UNCHANGED step
    \/ \E t \in Threads, p \in Ptrs : Get(t, p, 1) /\ UNCHANGED step
    \/ \E t \in Threads, p \in Ptrs : Put(t, p, 1, 1) /\ UNCHANGED step
    \/ \E t \in Threads, p \in Ptrs : Del(t, p, 1, 0) /\ UNCHANGED step
    \/ \E t \in Threads, p \in Ptrs : Reserve(t, p, 1, 1) /\ UNCHANGED step
    \/ \E t \in Threads, p \in Ptrs : ClearDb(t, p) /\ UNCHANGED step
    \/ \E t \in Threads, p \in Ptrs : DbFlags(t, p) /\ UNCHANGED step
    \/ \E t \in Threads, p \in Ptrs : DbStat(t, p) /\ UNCHANGED step
    \/ \E t \in Threads, p \in Ptrs : Id(t, p) /\ UNCHANGED step
    \/ \E t \in Threads : OpReturn(t) /\ UNCHANGED step
    \/ \E t \in Threads, p \in Ptrs : CommitStart(t, p) /\ UNCHANGED step
    \/ \E t \in Threads : DirectCommitReturn(t) /\ UNCHANGED step
    \/ \E t \in Threads : CommitRecv(t) /\ UNCHANGED step
    \/ \E t \in Threads, p \in Ptrs : Drop(t, p) /\ UNCHANGED step
    \/ \E t \in Threads : DirectAbortReturn(t) /\ UNCHANGED step
    \/ \E t \in Threads : DropRecv(t) /\ UNCHANGED step
    \/ MgrRecv /\ UNCHANGED step
    \/ MgrReply /\ UNCHANGED step

SpecOps == Init /\ [][OpsNext]_vars

\* SpecPrime: one thread primes database handles on its transactions and
\* commits or drops them, with engine errors.
PrimeNext ==
    \/ \E k \in Kinds : BeginTxn(1, k) /\ UNCHANGED step
    \/ \E p \in Ptrs, dbi \in Dbis : PrimeForPermaopen(1, p, dbi) /\ UNCHANGED step
    \/ \E p \in Ptrs : CommitStart(1, p) /\ UNCHANGED step
    \/ DirectCommitReturn(1) /\ UNCHANGED step
    \/ CommitRecv(1) /\ UNCHANGED step
    \/ \E p \in Ptrs : Drop(1, p) /\ UNCHANGED step
    \/ DirectAbortReturn(1) /\ UNCHANGED step
    \/ DropRecv(1) /\ UNCHANGED step
    \/ MgrRecv /\ UNCHANGED step
    \/ MgrReply /\ UNCHANGED step

SpecPrime == Init /\ [][PrimeNext]_vars

\* The worker's loop: receive a message, make its call and reply.
ManagerNext ==
    \/ MgrRecv /\ UNCHANGED step
    \/ MgrReply /\ UNCHANGED step

\* SpecLive: the read-write lifecycle of SpecTeardown with a worker that keeps
\* running.  The worker and the threads are scheduled by the operating system:
\* the worker's receive and reply, and a thread's return from rx.recv() once
\* the reply is there, are taken when they stay possible.  A thread is free
\* never to start an operation.
Receive(t) == (CommitRecv(t) \/ DropRecv(t) \/ NestedRecv(t)) /\ UNCHANGED step

LiveNext ==
    \/ \E t \in Threads : BeginTxn(t, "RW") /\ UNCHANGED step
    \/ \E t \in Threads, p \in Ptrs : Put(t, p, 1, 1) /\ UNCHANGED step
    \/ \E t \in Threads : OpReturn(t) /\ UNCHANGED step
    \/ \E t \in Threads, p \in Ptrs : CommitStart(t, p) /\ UNCHANGED step
    \/ \E t \in Threads, p \in Ptrs : Drop(t, p) /\ UNCHANGED step
    \/ \E t \in Threads, p \in Ptrs : BeginNested(t, p) /\ UNCHANGED step
    \/ \E t \in Threads : Receive(t)
    \/ ManagerNext

SpecLive ==
    /\ Init
    /\ [][LiveNext]_vars
    /\ WF_vars(ManagerNext)
    /\ \A t \in Threads : WF_vars(Receive(t))

\* ------------------------------------------------------------- scenarios
\* The step a scripted thread takes next: act moves it from position n to m.
From(t, n) == step[t].at = n
To(t, m) == step' = [step EXCEPT ![t].at = m]
Opened(t, m, ph) == step' = [step EXCEPT ![t] = [at |-> m, txn |-> NewPtr, phase |-> ph]]

\* test_concurrent_writers: every thread begins a read-write transaction, puts
\* its own key and commits; then one read-only transaction reads the keys.
KeyOf(t) == t
ValOf(t) == ((t - 1) % NumVals) + 1
Finished(t) == step[t].at >= 6
AllFinished == \A t \in Threads : Finished(t)

WBegin(t) == From(t, 0) /\ BeginTxn(t, "RW") /\ Opened(t, 1, "")
WPut(t) == From(t, 1) /\ Put(t, step[t].txn, KeyOf(t), ValOf(t)) /\ To(t, 2)
WPutReturn(t) == From(t, 2) /\ OpReturn(t) /\ To(t, 3)
WCommit(t) == From(t, 3) /\ CommitStart(t, step[t].txn) /\ To(t, 4)
WCommitRecv(t) == From(t, 4) /\ CommitRecv(t) /\ To(t, 5)
WDrop(t) == From(t, 5) /\ Drop(t, step[t].txn) /\ To(t, 6)

FinalBegin == AllFinished /\ From(1, 6) /\ BeginTxn(1, "RO") /\ Opened(1, 7, "")
FinalGet(k) == From(1, 7) /\ Get(1, step[1].txn, k) /\ To(1, 8)
FinalGetReturn == From(1, 8) /\ OpReturn(1) /\ To(1, 7)

WritersNext ==
    \/ \E t \in Threads : WBegin(t)
    \/ \E t \in Threads : WPut(t)
    \/ \E t \in Threads : WPutReturn(t)
    \/ \E t \in Threads : WCommit(t)
    \/ \E t \in Threads : WCommitRecv(t)
    \/ \E t \in Threads : WDrop(t)
    \/ FinalBegin
    \/ \E k \in Keys : FinalGet(k)
    \/ FinalGetReturn
    \/ MgrRecv /\ UNCHANGED step
    \/ MgrReply /\ UNCHANGED step

\* Threads and the manager's worker are scheduled by the operating system:
\* a step that stays possible is taken.
SpecWriters == Start(0) /\ [][WritersNext]_vars /\ WF_vars(WritersNext)

\* test_concurrent_readers_single_writer: thread 1 writes one key and commits;
\* the other threads run read-only transactions at any time.  A reader's
\* transaction is "pre" when it was begun before the engine made the writer's
\* commit, "post" when it was begun after the writer's commit() had returned.
Writer == 1
Readers == Threads \ {Writer}
WriterOpened == step[Writer].at >= 1

Phase ==
    IF ~WriterOpened \/ nCommit[step[Writer].txn] = 0 THEN "pre"
    ELSE IF step[Writer].at >= 5 THEN "post"
    ELSE "mid"

\* A pointer is left for the writer.
Spare == Cardinality(FreePtrs) > (IF WriterOpened THEN 0 ELSE 1)

RdBegin(t) == From(t, 0) /\ Spare /\ BeginTxn(t, "RO") /\ Opened(t, 1, Phase)
RdGet(t) == From(t, 1) /\ Get(t, step[t].txn, KeyOf(Writer)) /\ To(t, 2)
RdGetReturn(t) == From(t, 2) /\ OpReturn(t) /\ To(t, 1)
RdDrop(t) == From(t, 1) /\ Drop(t, step[t].txn) /\ To(t, 3)
RdDropReturn(t) ==
    /\ From(t, 3)
    /\ DirectAbortReturn(t)
    /\ step' = [step EXCEPT ![t] = NoStep]

WriterNext ==
    \/ WBegin(Writer)
    \/ WPut(Writer)
    \/ WPutReturn(Writer)
    \/ WCommit(Writer)
    \/ WCommitRecv(Writer)
    \/ WDrop(Writer)

ReadersNext ==
    \/ WriterNext
    \/ ManagerNext
    \/ \E t \in Readers : RdBegin(t)
    \/ \E t \in Readers : RdGet(t)
    \/ \E t \in Readers : RdGetReturn(t)
    \/ \E t \in Readers : RdDrop(t)
    \/ \E t \in Readers : RdDropReturn(t)

\* Only the writer and the manager are assumed to keep running: a reader may
\* stop anywhere, its transaction open.
SpecReaders ==
    Start(0) /\ [][ReadersNext]_vars /\ WF_vars(WriterNext) /\ WF_vars(ManagerNext)

\* ------------------------------------------------------------- properties
\* Thread t is inside an engine call on pointer p; the manager is.
InCall(t, p) == pc[t] \in {"op", "direct_commit", "direct_abort"} /\ cur[t] = p
MgrCall(p) == mgr # NoMsg /\ mgr.ptr = p
Calls(p) == Cardinality({t \in Threads : InCall(t, p)}) + (IF MgrCall(p) THEN 1 ELSE 0)

WaitPcs == {"commit_wait", "drop_wait", "nested_wait"}

\* The request thread t is waiting on.
Request(t) ==
    [type |-> CASE pc[t] = "commit_wait" -> "Commit"
                [] pc[t] = "drop_wait" -> "Abort"
                [] OTHER -> "Begin",
     ptr |-> cur[t], from |-> t]

\* This step is the manager finishing the engine call of its message.
ManagerStep == mgr # NoMsg /\ mgr' = NoMsg /\ pc' = pc

\* C1: the engine's commit and abort of a read-write pointer and every nested
\* begin are executed by a step of the manager on a message naming that pointer,
\* never by a step of a calling thread; and a thread blocked in commit(), drop
\* or begin_nested_txn() leaves its wait only with the reply to its own request.
C1_Step ==
    /\ \A p \in Ptrs :
          kind[p] = "RW" /\ (nCommit'[p] # nCommit[p] \/ nAbort'[p] # nAbort[p])
             => ManagerStep /\ mgr.ptr = p
    /\ \A c \in Ptrs :
          estat[c] = "free" /\ estat'[c] = "open" /\ parent'[c] # 0
             => ManagerStep /\ mgr.type = "Begin" /\ mgr.ptr = parent'[c]
    /\ \A t \in Threads :
          pc[t] \in WaitPcs /\ pc'[t] # pc[t]
             => Replied(t) /\ rx[t].for = Request(t)

C1_ManagerExecutes == [][C1_Step]_vars

C1_Witness ==
    \E t \in Threads :
       /\ pc[t] = "commit_wait" /\ Replied(t) /\ rx[t].for = Request(t)
       /\ nCommit[cur[t]] = 1 /\ lock[cur[t]] = t

\* C2: at most one engine call is in progress on any pointer, counting the
\* calls of the caller threads and the call of the manager.
C2_OneCallPerPointer == \A p \in Ptrs : Calls(p) <= 1

\* A data call is in progress on p while another thread is free to call on p.
C2_Witness ==
    \E p \in Ptrs, t \in Threads :
       /\ SharedBy(p) /\ Calls(p) = 1 /\ lock[p] # 0
       /\ pc[t] = "idle" /\ hstat[p] = "live"

\* C3: a pointer never gets more than one finalizing engine call (commit or
\* abort), and once its handle is gone it has got exactly one.
C3_FinalizedOnce ==
    \A p \in Ptrs :
       /\ nCommit[p] + nAbort[p] <= 1
       /\ hstat[p] = "gone" => nCommit[p] + nAbort[p] = 1

C3_Witness ==
    \E p, q \in Ptrs :
       /\ hstat[p] = "gone" /\ nCommit[p] = 1 /\ kind[p] = "RW"
       /\ hstat[q] = "gone" /\ nAbort[q] = 1 /\ kind[q] = "RW"

\* C4 as stated: after commit() got an error from the engine, the committed
\* flag is false.
C4_FlagFalseOnError ==
    last.op = "commit" /\ ~last.ok => ~committed[last.ptr]

\* C4: once the commit call of commit() has returned, with success or with an
\* error, the committed flag is true, and the drop that follows issues no
\* abort: a handle on which commit() was called is never aborted.  The flag is
\* true only after the engine's commit call for the pointer was made.
C4_FlagSetAfterCommitCall ==
    /\ last.op = "commit" => committed[last.ptr]
    /\ \A p \in Ptrs : committed[p] => nCommit[p] = 1
    /\ \A p \in invoked : nAbort[p] = 0

\* A handle is gone whose commit failed: no abort followed.
C4_Witness ==
    \E p \in invoked :
       hstat[p] = "gone" /\ estat[p] = "aborted" /\ committed[p] /\ nAbort[p] = 0

\* C5: commit() returns success only after the engine's commit call for the
\* pointer was made and returned success; its boolean is the engine's, and an
\* engine error is returned as that error.
C5_CommitResult ==
    last.op = "commit" =>
       /\ nCommit[last.ptr] = 1
       /\ last.ok <=> last.code \in {"SUCCESS", "RESULT_TRUE"}
       /\ last.ok => /\ last.val = (IF last.code = "RESULT_TRUE" THEN 1 ELSE 0)
                     /\ estat[last.ptr] = "committed"
       /\ ~last.ok => last.err = last.code /\ estat[last.ptr] = "aborted"

C5_Witness ==
    /\ last.op = "commit" /\ last.ok /\ last.val = 1
    /\ kind[last.ptr] = "RW" /\ nCommit[last.ptr] = 1

\* C6: a handle destroyed without commit() got exactly one abort and no commit
\* before the drop completed: a read-only handle by a direct call, a read-write
\* handle by an Abort message whose sender waits, the handle still there, until
\* the reply.  A handle whose committed flag is true gets no abort.
C6_DropAborts ==
    /\ \A p \in Ptrs :
          /\ hstat[p] = "gone" /\ p \notin invoked => nAbort[p] = 1 /\ nCommit[p] = 0
          /\ committed[p] => nAbort[p] = 0
    /\ \A t \in Threads :
          /\ pc[t] = "direct_abort" => kind[cur[t]] = "RO"
          /\ pc[t] = "drop_wait" =>
                /\ kind[cur[t]] = "RW" /\ hstat[cur[t]] = "moved"
                /\ \/ Request(t) \in msgs
                   \/ mgr = Request(t)
                   \/ rx[t].for = Request(t) /\ nAbort[cur[t]] = 1

C6_Witness ==
    \E p, q \in Ptrs \ invoked :
       /\ hstat[p] = "gone" /\ kind[p] = "RO" /\ nAbort[p] = 1
       /\ hstat[q] = "gone" /\ kind[q] = "RW" /\ nAbort[q] = 1

\* A successful commit's reply is on its way to the thread that asked for it.
CommitReplyPending == \E t \in Threads : pc[t] = "commit_wait" /\ Replied(t) /\ rx[t].ok

\* C7: the transaction of a read-write handle on which commit() was never
\* called is never committed by the engine, and the data transactions begun
\* later start from is the data of the last commit() that returned success:
\* it holds nothing written under a handle that was dropped.
C7_DroppedWritesInvisible ==
    /\ \A p \in Ptrs \ invoked : kind[p] = "RW" => estat[p] # "committed"
    /\ store # acked => CommitReplyPending

\* The abort of a dropped handle has discarded writes that the store lacks.
C7_Witness ==
    \E p \in Ptrs \ invoked :
       /\ kind[p] = "RW" /\ parent[p] = 0 /\ estat[p] = "aborted" /\ nAbort[p] = 1
       /\ view[p] # store /\ store = acked

\* The value get returns for the data d of the transaction it is called on.
Expected(d, k) == IF d[k] = {} THEN 0 ELSE Min(d[k])

\* C8: when commit() of a top-level read-write transaction returns success, the
\* committed data is what that transaction held; a transaction begun afterwards
\* starts from it, and get returns the key's value there, absent for a key
\* that has none.
C8_CommittedWritesVisible ==
    /\ last.op = "commit" /\ last.ok /\ kind[last.ptr] = "RW" /\ parent[last.ptr] = 0
          => store = view[last.ptr]
    /\ last.op = "begin" /\ last.ok => view[last.ptr] = acked
    /\ last.op = "get" /\ last.ok => last.val = Expected(view[last.ptr], last.key)

\* A read-only transaction reads a value that a committed transaction put.
C8_Witness ==
    /\ last.op = "get" /\ last.ok /\ last.val = NumVals
    /\ kind[last.ptr] = "RO" /\ acked[last.key] = {NumVals}
    /\ \E k \in Keys : acked[k] = {}

\* C9: in test_concurrent_writers every commit() returns success, the final
\* read-only transaction reads every thread's key with its value, and under
\* fair scheduling every thread finishes: none waits forever for the engine's
\* writer exclusion, a pointer's mutex or the manager.
C9_Safe ==
    /\ last.op = "commit" => last.ok
    /\ last.op = "get" =>
          last.ok /\ last.val = (IF last.key \in Threads THEN ValOf(last.key) ELSE 0)

C9_WritersAllCommit == []C9_Safe /\ <>AllFinished

\* The final transaction has read the key of the last thread.
C9_Witness ==
    /\ AllFinished /\ last.op = "get" /\ last.key = NumThreads
    /\ last.val = ValOf(NumThreads)
    /\ Cardinality({p \in Ptrs : kind[p] = "RW" /\ estat[p] = "committed"}) = NumThreads

\* The phase of the reader's transaction on pointer p.
PhaseOf(p) ==
    LET t == CHOOSE t \in Readers : step[t].txn = p IN step[t].phase

\* C10: a read-only transaction begun before the engine made the writer's
\* commit reads the key as absent, one begun after the writer's commit() had
\* returned reads the committed value, and none reads anything else; a reader
\* never sends to the manager or waits for it; and the writer finishes even
\* when the readers stop with their transactions open.
C10_Safe ==
    /\ last.op = "get" =>
          /\ last.ok /\ last.val \in {0, ValOf(Writer)}
          /\ PhaseOf(last.ptr) = "pre" => last.val = 0
          /\ PhaseOf(last.ptr) = "post" => last.val = ValOf(Writer)
    /\ \A t \in Readers : pc[t] \notin WaitPcs
    /\ \A m \in msgs \cup {mgr} : m.from \notin Readers

C10_WitnessPost ==
    /\ last.op = "get" /\ last.val = ValOf(Writer) /\ PhaseOf(last.ptr) = "post"

\* A nested handle on which commit() has not been called.
OpenChild(c) == parent[c] # 0 /\ hstat[c] \in {"live", "moved"} /\ c \notin invoked

\* C11: the transaction begin_nested_txn returns starts from the data of the
\* handle it was called on, that handle's uncommitted writes included; a put
\* that succeeds is in the data of its own transaction and get reads that
\* data; and while a nested handle lives on which commit() was not called, up
\* to and including its drop, its parent's data does not change and the parent
\* stays open with its committed flag false.
C11_Step ==
    /\ \A t \in Threads :
          pc[t] = "nested_wait" /\ pc'[t] = "idle" /\ last'.ok
             => /\ view'[last'.ptr] = view[cur[t]]
                /\ parent'[last'.ptr] = cur[t]
    /\ \A t \in Threads :
          pc[t] = "op" /\ pc'[t] = "idle" /\ last'.ok
             => /\ arg[t].op = "put" => arg[t].val \in view'[cur[t]][arg[t].key]
                /\ arg[t].op = "get" => last'.val = Expected(view'[cur[t]], arg[t].key)
    /\ \A c \in Ptrs :
          OpenChild(c)
             => /\ view'[parent[c]] = view[parent[c]]
                /\ estat'[parent[c]] = "open"
                /\ ~committed'[parent[c]]

C11_NestedDropDiscards == [][C11_Step]_vars

\* A nested transaction that wrote has been aborted by its drop; its parent,
\* still open, holds its own uncommitted write and not the child's.
C11_Witness ==
    \E c \in Ptrs :
       /\ OpenChild(c) /\ estat[c] = "aborted" /\ nAbort[c] = 1
       /\ view[c] # view[parent[c]] /\ view[parent[c]] # store
       /\ estat[parent[c]] = "open"

\* The engine commits pointer p in this step.
EngineCommits(p) == estat[p] = "open" /\ estat'[p] = "committed"

\* C12: when commit() of a nested handle returns success its parent holds the
\* nested transaction's data, and the engine's commit of a nested transaction
\* leaves the committed data alone; the committed data changes only in the
\* step where the engine commits a top-level read-write transaction on which
\* commit() was called, and becomes that transaction's data; a top-level
\* transaction starts from the committed data as of its begin, and an open
\* read-only transaction's data never changes afterwards.
C12_Step ==
    /\ \A t \in Threads :
          pc[t] = "commit_wait" /\ pc'[t] = "commit_ret" /\ last'.ok /\ parent[cur[t]] # 0
             => view'[parent[cur[t]]] = view'[cur[t]] /\ estat'[cur[t]] = "committed"
    /\ \A c \in Ptrs :
          EngineCommits(c) /\ parent[c] # 0
             => view'[parent[c]] = view[c] /\ store' = store
    /\ store' # store
          => \E p \in invoked :
                /\ kind[p] = "RW" /\ parent[p] = 0 /\ EngineCommits(p)
                /\ store' = view[p]
    /\ last'.op = "begin" /\ last'.ok /\ last' # last => view'[last'.ptr] = store
    /\ \A r \in Ptrs :
          kind[r] = "RO" /\ estat[r] = "open" /\ estat'[r] = "open" => view'[r] = view[r]

C12_NestedCommitFolds == [][C12_Step]_vars

\* A nested transaction has committed into its parent, which is still open; a
\* read-only transaction begun now does not have the data the parent holds.
C12_Witness ==
    \E c, r \in Ptrs :
       /\ parent[c] # 0 /\ estat[c] = "committed" /\ estat[parent[c]] = "open"
       /\ view[parent[c]] # store
       /\ last.op = "begin" /\ last.ptr = r /\ kind[r] = "RO" /\ view[r] = store

\* C13: once the manager's worker has terminated, a thread whose commit(),
\* begin_nested_txn() or drop of a read-write handle has a message nobody
\* received leaves the call only by panicking: no result is returned, the
\* committed flag is not set, no engine call is counted for the pointer, and
\* the thread does nothing afterwards; the worker never resumes and sends no
\* further reply.
C13_Step ==
    /\ \A t \in Threads :
          pc[t] \in WaitPcs /\ mgr = Stopped /\ ~Replied(t) /\ pc'[t] # pc[t]
             => /\ pc'[t] = "panicked"
                /\ last'.op = "panic" /\ ~last'.ok /\ last'.ptr = cur[t]
                /\ committed' = committed /\ hstat' = hstat
                /\ nCommit' = nCommit /\ nAbort' = nAbort
    /\ \A t \in Threads : pc[t] = "panicked" => pc'[t] = "panicked"
    /\ mgr = Stopped
          => mgr' = Stopped /\ \A t \in Threads : ~Replied(t) => rx'[t] = NoReply

C13_SendFailurePanics == [][C13_Step]_vars

\* commit() was called after the worker had terminated and has panicked.
C13_Witness ==
    \E p \in invoked :
       /\ mgr = Stopped /\ last.op = "panic" /\ last.ptr = p /\ last.err = "SEND_ERROR"
       /\ hstat[p] = "moved" /\ ~committed[p] /\ nCommit[p] = 0 /\ estat[p] = "open"

\* The entry del(key, data) is to remove exists in data d (data = 0: no value
\* given, any value of the key).
Matching(d, k, data) == d[k] # {} /\ (data = 0 \/ data \in d[k])

\* C14: when del returns without an engine error it returns true exactly when
\* a matching entry existed and false otherwise; with a value given the key
\* loses that value only, with none it loses every value; the other keys keep
\* theirs, and nothing changes when no entry matched.  A get of the key that
\* follows a del of all its values returns absent.
C14_Step ==
    \A t \in Threads :
       pc[t] = "op" /\ pc'[t] = "idle" /\ arg[t].op = "del" /\ last'.code \notin EngineErrors
          => LET p == cur[t]
                 k == arg[t].key
                 data == arg[t].val
                 d == view[p]
             IN /\ last'.op = "del" /\ last'.ok
                /\ last'.val = (IF Matching(d, k, data) THEN 1 ELSE 0)
                /\ view'[p][k] = (IF ~Matching(d, k, data) THEN d[k]
                                  ELSE IF data = 0 THEN {}
                                  ELSE d[k] \ {data})
                /\ \A j \in Keys \ {k} : view'[p][j] = d[j]
                /\ last'.val = 1 /\ data = 0 => Expected(view'[p], k) = 0

C14_DelRemoves == [][C14_Step]_vars

\* del with a value has removed one of two duplicates of a key.
C14_Witness ==
    /\ dupsort /\ last.op = "del" /\ last.ok /\ last.val = 1
    /\ estat[last.ptr] = "open" /\ Cardinality(view[last.ptr][last.key]) = 1
    /\ Cardinality(store[last.key]) = 2

\* C15: get and del return an engine NotFound as the absent result (None,
\* false) and not as an error; any other engine error returned to get, put,
\* del, clear_db, db_stat or commit is what the operation returns, as that
\* error and in the step the engine returned it.
C15_NotFoundIsAbsent ==
    /\ last.op \in {"get", "del"} /\ last.code = "NOTFOUND"
          => last.ok /\ last.val = 0
    /\ last.op \in {"get", "put", "del", "clear_db", "db_stat", "commit"}
       /\ last.code \in EngineErrors
          => ~last.ok /\ last.err = last.code

\* get has returned absent for an engine NotFound after an engine error was
\* returned by an earlier call.
C15_Witness ==
    /\ last.op = "get" /\ last.code = "NOTFOUND" /\ last.ok /\ last.val = 0
    /\ faults < MaxFaults

\* An engine error has come back from del as that error.
C15_WitnessError ==
    last.op = "del" /\ last.code \in EngineErrors /\ ~last.ok /\ last.err = last.code

\* The messages sent and not yet answered.
InFlight == (msgs \cup {mgr}) \ {NoMsg, Stopped}

\* No message names a read-only pointer, no thread waits for the manager on a
\* read-only handle, and a read-only commit or abort in progress can return
\* whatever the manager is doing.
C16_Safe ==
    /\ \A m \in InFlight : kind[m.ptr] = "RW"
    /\ \A t \in Threads :
          /\ pc[t] \in WaitPcs => kind[cur[t]] = "RW"
          /\ pc[t] = "direct_commit" => ENABLED DirectCommitReturn(t)
          /\ pc[t] = "direct_abort" => ENABLED DirectAbortReturn(t)

\* The engine's begin, commit and abort of a read-only pointer happen in a
\* step of the calling thread that leaves the manager and its queue alone.
C16_Step ==
    \A p \in Ptrs :
       kind'[p] = "RO" /\ estat'[p] # estat[p]
          => /\ mgr' = mgr /\ msgs' = msgs /\ rx' = rx
             /\ estat[p] = "open" => \E t \in Threads : InCall(t, p) /\ pc'[t] # pc[t]

\* C16: a read-only transaction never sends to the manager or waits for it:
\* its begin, commit and drop-time abort are engine calls of the calling
\* thread, which complete also while the manager is processing a request.
C16_ReadOnlyBypassesManager == []C16_Safe /\ [][C16_Step]_vars

\* commit() of a read-only handle has returned while the manager is in the
\* middle of another thread's request.
C16_Witness ==
    /\ last.op = "commit" /\ kind[last.ptr] = "RO" /\ nCommit[last.ptr] = 1
    /\ mgr \notin {NoMsg, Stopped}
    /\ \E t \in Threads : pc[t] \in WaitPcs /\ mgr = Request(t)

\* C17 as stated: once its message has been sent (the manager has taken it),
\* a thread blocked waiting for the manager's reply does not hold the
\* pointer's mutex.
C17_NoLockWhileWaiting ==
    \A t \in Threads :
       pc[t] \in WaitPcs /\ Request(t) \notin msgs => lock[cur[t]] # t

\* C17: a thread blocked in commit(), begin_nested_txn() or the drop of a
\* read-write handle holds the pointer's mutex for the whole wait: the lock is
\* taken before the message is sent, is held while the message is queued,
\* while the manager makes the call and while the reply waits to be received,
\* and is released only in the step in which the thread leaves the wait.
C17_LockHeldAcrossWait ==
    /\ \A t \in Threads : pc[t] \in WaitPcs => lock[cur[t]] = t
    /\ \A m \in InFlight : lock[m.ptr] = m.from
    /\ \A p \in Ptrs : lock[p] # 0 => pc[lock[p]] # "idle" /\ cur[lock[p]] = p

\* The manager has replied to a drop's Abort and the dropping thread, not yet
\* woken, still holds the mutex.
C17_Witness ==
    \E t \in Threads :
       pc[t] = "drop_wait" /\ Replied(t) /\ nAbort[cur[t]] = 1 /\ lock[cur[t]] = t

\* Where the request of waiting thread t is: queued, with the manager, answered.
Stages(t) ==
    (IF Request(t) \in msgs THEN {"queued"} ELSE {})
       \cup (IF mgr = Request(t) THEN {"processing"} ELSE {})
       \cup (IF Replied(t) THEN {"answered"} ELSE {})

\* Every waiting thread's request is at exactly one stage, every message in
\* flight is its sender's request, and a reply sits only in the channel of the
\* thread whose request it answers.
C18_Safe ==
    /\ \A t \in Threads : pc[t] \in WaitPcs => Cardinality(Stages(t)) = 1
    /\ \A m \in InFlight : pc[m.from] \in WaitPcs /\ m = Request(m.from)
    /\ \A t \in Threads : Replied(t) => pc[t] \in WaitPcs /\ rx[t].for = Request(t)

\* The manager leaves a message only by sending its one reply, to the
\* message's sender and to nobody else, and is idle again before it takes
\* another; a reply is taken only by its thread, leaving the wait.
C18_Step ==
    /\ mgr \in InFlight /\ mgr' # mgr
          => /\ mgr' = NoMsg
             /\ rx[mgr.from] = NoReply /\ rx'[mgr.from].for = mgr
             /\ \A t \in Threads \ {mgr.from} : rx'[t] = rx[t]
    /\ mgr' \in InFlight' /\ mgr' # mgr => mgr = NoMsg /\ mgr' \in msgs /\ rx' = rx
    /\ \A t \in Threads :
          Replied(t) /\ rx'[t] # rx[t] => rx'[t] = NoReply /\ pc'[t] # pc[t]

\* C18: every Begin, Commit or Abort message gets exactly one reply, sent on
\* the channel created for it before the manager takes any later message, and
\* its sender receives that reply and no other.
C18_OneReplyPerMessage == []C18_Safe /\ [][C18_Step]_vars

\* One thread's reply is in its channel while the request of another thread
\* is still queued.
C18_Witness ==
    \E t, u \in Threads :
       /\ t # u /\ pc[t] \in WaitPcs /\ Replied(t) /\ rx[t].for = Request(t)
       /\ pc[u] \in WaitPcs /\ Request(u) \in msgs /\ ~Replied(u)

\* The threads inside a lifecycle call of their own on a read-write pointer.
DirectRw == {t \in Threads : pc[t] \in {"direct_commit", "direct_abort"}
                               /\ kind[cur[t]] = "RW"}

\* The read-write pointers on which this step makes a lifecycle call: a commit,
\* an abort, or the begin of a nested transaction.
Lifecycled ==
    {p \in Ptrs : /\ kind'[p] = "RW"
                  /\ \/ nCommit'[p] # nCommit[p]
                     \/ nAbort'[p] # nAbort[p]
                     \/ estat[p] = "free" /\ estat'[p] = "open" /\ parent'[p] # 0}

\* The lifecycle calls in progress on read-write pointers are the manager's,
\* so there is at most one.
C19_Safe ==
    /\ DirectRw = {}
    /\ Cardinality(DirectRw) + Cardinality({p \in Ptrs : MgrCall(p)}) <= 1

\* A step makes at most one such call, as the manager finishing the message
\* it had taken for that pointer (for a nested begin: for its parent).
C19_Step ==
    /\ Cardinality(Lifecycled) <= 1
    /\ \A p \in Lifecycled :
          /\ ManagerStep /\ mgr \in InFlight
          /\ mgr.ptr = (IF mgr.type = "Begin" THEN parent'[p] ELSE p)

\* C19: at most one manager-routed lifecycle call (nested begin, commit or
\* abort of a read-write transaction) is in progress at any time, whatever the
\* caller threads request concurrently, and the calls happen one per step of
\* the manager: in a single order.
C19_OneLifecycleCall == []C19_Safe /\ [][C19_Step]_vars

\* The manager is making the lifecycle call of a second read-write
\* transaction, the first one finished, while another thread is inside an
\* engine call on a third transaction.
C19_Witness ==
    \E t, u \in Threads, p \in Ptrs :
       /\ t # u /\ mgr = Request(u) /\ pc[u] \in WaitPcs /\ kind[mgr.ptr] = "RW"
       /\ p # mgr.ptr /\ kind[p] = "RW" /\ hstat[p] = "gone"
       /\ nCommit[p] + nAbort[p] = 1
       /\ pc[t] = "op" /\ cur[t] \notin {p, mgr.ptr}

\* The key/value entries of data d, each duplicate value of a key one entry.
Entries(d) == {e \in Keys \X Vals : e[2] \in d[e[1]]}

\* C20: the entry count db_stat returns is the number of key/value entries of
\* the transaction's data, every duplicate counted; for a transaction begun
\* after the commits that is the committed data, the net result of the
\* committed put, del and clear_db operations.
C20_StatCountsEntries ==
    /\ last.op = "db_stat" /\ last.ok
          => last.val = Cardinality(Entries(view[last.ptr]))
    /\ last.op = "begin" /\ last.ok
          => view[last.ptr] = store /\ store = acked

\* After commits, a read-only transaction counts three entries, two of them
\* duplicates of one key.
C20_Witness ==
    /\ dupsort /\ last.op = "db_stat" /\ last.ok /\ last.val = 3
    /\ kind[last.ptr] = "RO" /\ view[last.ptr] = acked
    /\ \E k \in Keys : Cardinality(acked[k]) = 2

\* A waiting thread and the manager are never stuck on each other: the
\* manager can take or finish a message, or the thread's reply is there.
C21_Safe ==
    \A t \in Threads :
       pc[t] \in WaitPcs
          => \/ Replied(t) /\ ENABLED Receive(t)
             \/ ~Replied(t) /\ ENABLED ManagerNext

\* C21: with the worker and the receiving threads scheduled fairly, every
\* request gets its reply, every thread blocked in commit(), begin_nested_txn()
\* or a read-write drop leaves the wait, the manager is idle again after each
\* message, and no state has a waiting thread and the manager stuck on each
\* other.
C21_RequestsAnswered ==
    /\ []C21_Safe
    /\ \A t \in Threads :
          /\ (pc[t] \in WaitPcs /\ ~Replied(t)) ~> Replied(t)
          /\ (pc[t] \in WaitPcs) ~> (pc[t] \notin WaitPcs)
    /\ (mgr \in InFlight) ~> (mgr = NoMsg)

\* A thread's request is queued while another thread has not yet taken the
\* reply to its own.
C21_Witness ==
    \E t, u \in Threads :
       /\ t # u /\ pc[t] = "commit_wait" /\ Request(t) \in msgs
       /\ pc[u] = "drop_wait" /\ Replied(u)

\* The operations that go through txn_execute.
DataOps == {"get", "put", "del", "reserve", "clear_db", "db_flags", "db_stat", "id"}

\* A thread inside such an operation holds the pointer's lock, has no message
\* with the manager and no reply to receive, and its engine call can return
\* whatever the manager is doing.  A thread can start one on every usable
\* handle whose lock is free.
C22_Safe ==
    /\ \A t \in Threads :
          pc[t] = "op"
             => /\ arg[t].op \in DataOps
                /\ lock[cur[t]] = t
                /\ ~Replied(t)
                /\ \A m \in InFlight : m.from # t
                /\ ENABLED OpReturn(t)
    /\ \A t \in Threads, p \in Ptrs :
          pc[t] = "idle" /\ Usable(p) /\ lock[p] = 0
             => ENABLED Id(t, p) /\ ENABLED Get(t, p, 1)

\* Entering the operation takes the lock and leaving it releases the lock;
\* neither step touches the manager's queue, its current message or a reply.
C22_Step ==
    \A t \in Threads :
       (pc[t] = "op") # (pc'[t] = "op")
          => /\ msgs' = msgs /\ mgr' = mgr /\ rx' = rx
             /\ pc[t] = "op" => pc'[t] = "idle" /\ lock'[cur[t]] = 0
                                /\ last'.op = arg[t].op
             /\ pc'[t] = "op" => pc[t] = "idle" /\ lock[cur'[t]] = 0
                                 /\ lock'[cur'[t]] = t

\* C22: get, put, del, reserve, clear_db, db_flags, db_stat and id send no
\* message to the manager and wait for no reply: each takes the pointer's
\* lock, makes one engine call and releases the lock, so it is not delayed by
\* a lifecycle request in flight for another transaction.
C22_DataOpsBypassManager == []C22_Safe /\ [][C22_Step]_vars

\* An operation returned on one transaction while the manager was making the
\* lifecycle call of another one, whose caller is still waiting.
C22_Witness ==
    /\ last.op \in DataOps
    /\ mgr \in InFlight /\ mgr.ptr # last.ptr
    /\ \E u \in Threads : pc[u] \in WaitPcs /\ mgr = Request(u)

\* The begin calls that return in this step.
BeginOps == {"begin", "begin_nested"}

\* A pointer the engine never handed out has no handle, no finalizing call and
\* no message; a handle that is still there has had no finalizing call unless
\* its commit is returning, and a handle that is gone has had exactly one.
C23_Safe ==
    \A p \in Ptrs :
       /\ estat[p] = "free"
             => /\ hstat[p] = "none" /\ nCommit[p] + nAbort[p] = 0
                /\ \A m \in InFlight : m.type = "Begin" \/ m.ptr # p
       /\ hstat[p] = "live" => ~committed[p] /\ nCommit[p] + nAbort[p] = 0
       /\ hstat[p] = "gone" => nCommit[p] + nAbort[p] = 1

\* A begin that returns Ok returns a new live handle with committed = false.
\* A begin that returns an error returns the engine's error, creates no
\* handle and issues nothing; a failed nested begin leaves its parent a live,
\* uncommitted handle nobody borrows, with no finalizing call made on it.
C23_Step ==
    last'.op \in BeginOps =>
       IF last'.ok
       THEN /\ hstat[last'.val] = "none" /\ hstat'[last'.val] = "live"
            /\ committed'[last'.val] = FALSE
            /\ estat'[last'.val] = "open"
            /\ last'.code = "SUCCESS"
       ELSE /\ last'.err = last'.code /\ last'.code \in EngineErrors
            /\ hstat' = hstat /\ committed' = committed
            /\ estat' = estat /\ msgs' = msgs
            /\ nCommit' = nCommit /\ nAbort' = nAbort
            /\ last'.op = "begin_nested"
                  => \E t \in Threads :
                        /\ pc[t] = "nested_wait" /\ pc'[t] = "idle"
                        /\ LET par == cur[t] IN
                              /\ hstat'[par] = "live" /\ ~committed'[par]
                              /\ estat'[par] = "open" /\ lock'[par] = 0
                              /\ nCommit'[par] + nAbort'[par] = 0
                              /\ \A c \in Ptrs : parent'[c] = par => hstat'[c] = "gone"
                              /\ \A u \in Threads : cur'[u] # par

\* C23: a successful begin, top-level or nested, yields a handle with
\* committed = false.  When the engine's begin fails the error is returned, no
\* handle is created and no commit or abort is issued for the attempt; after a
\* failed begin_nested_txn the parent is unchanged, uncommitted and usable,
\* and like every handle it is finalized exactly once.
C23_BeginResult == []C23_Safe /\ [][C23_Step]_vars

\* A nested begin has just failed in the engine; its parent, the one
\* read-write handle nobody borrows, can be committed or dropped.
C23_Witness ==
    /\ last.op = "begin_nested" /\ ~last.ok
    /\ \E t \in Threads, p \in Ptrs :
          /\ kind[p] = "RW" /\ Owned(p) /\ ~committed[p]
          /\ ENABLED CommitStart(t, p) /\ ENABLED Drop(t, p)

\* A primed set holds database handles, each once.
C24_Safe ==
    \A p \in Ptrs :
       /\ Range(primed_dbis[p]) \subseteq Dbis
       /\ \A i, j \in DOMAIN primed_dbis[p] :
             primed_dbis[p][i] = primed_dbis[p][j] => i = j

\* Priming a handle that is primed already changes nothing, priming a new one
\* puts it after those primed before; nothing else changes the primed set of
\* a handle.  A successful commit returns the primed handles in that order, a
\* failed one the error and none; no other call returns database handles.
C24_Step ==
    /\ IF last'.op = "prime_for_permaopen"
       THEN LET p == last'.ptr
                dbi == last'.key
                old == primed_dbis[p]
                new == primed_dbis'[p]
            IN /\ dbi \in Range(new)
               /\ Range(new) = Range(old) \cup {dbi}
               /\ SubSeq(new, 1, Len(old)) = old
               /\ dbi \in Range(old) => new = old
               /\ \A q \in Ptrs \ {p} : primed_dbis'[q] = primed_dbis[q]
       ELSE \A q \in Ptrs : hstat[q] # "none" => primed_dbis'[q] = primed_dbis[q]
    /\ IF last'.op = "commit"
       THEN IF last'.ok
            THEN last'.dbs = primed_dbis[last'.ptr] /\ last'.code \notin EngineErrors
            ELSE last'.dbs = <<>> /\ last'.err = last'.code
                 /\ last'.code \in EngineErrors
       ELSE last'.dbs = <<>>

\* C24: commit_and_rebind_open_dbs returns, on a successful commit, exactly
\* the database handles primed on the transaction with prime_for_permaopen,
\* each once and in order of first priming (priming a handle again changes
\* nothing); when the commit fails it returns the error and no handles.
C24_CommitReturnsPrimed == []C24_Safe /\ [][C24_Step]_vars

\* A read-write commit succeeded and returned two handles, the one with the
\* greater identifier primed first.
C24_Witness ==
    /\ last.op = "commit" /\ last.ok /\ kind[last.ptr] = "RW"
    /\ last.dbs = <<2, 1>>

\* c is a nested transaction whose handle exists: live, or moved into its
\* commit or drop, which has not finished.
ChildHandle(c) == parent[c] # 0 /\ hstat[c] \in {"live", "moved"}

\* The finalizing engine calls made on pointer p.
Finalized(p) == nCommit[p] + nAbort[p]

\* The pointers this step starts a handle-layer call on: a data operation, a
\* direct commit or abort, or a message to the manager.
CalledOn ==
    {p \in Ptrs : \/ \E t \in Threads : pc'[t] # pc[t] /\ pc[t] = "idle" /\ cur'[t] = p
                  \/ \E m \in msgs' \ msgs : m.ptr = p}

\* While a child's handle exists its parent is a live handle with no call in
\* progress, no message and no finalizing call made; a parent that has been
\* finalized has had its children finalized before.
C25_Safe ==
    \A c \in Ptrs :
       LET par == parent[c] IN
       /\ ChildHandle(c)
             => /\ hstat[par] = "live" /\ estat[par] = "open" /\ lock[par] = 0
                /\ Finalized(par) = 0
                /\ \A t \in Threads : cur[t] # par
                /\ \A m \in InFlight : m.ptr # par
       /\ par # 0 /\ Finalized(par) > 0 => Finalized(c) = 1 /\ hstat[c] = "gone"

\* No step starts a call on a pointer that has a child handle, and a step
\* that finalizes a pointer finds each of its children finalized.
C25_Step ==
    /\ \A p \in CalledOn : \A c \in Ptrs : ChildHandle(c) => parent[c] # p
    /\ \A p \in Ptrs :
          Finalized(p)' # Finalized(p)
             => \A c \in Ptrs : parent[c] = p => Finalized(c) = 1 /\ ~ChildHandle(c)

\* C25: while a nested child handle is live the handle layer issues no call
\* (data operation, commit, abort or another nested begin) on the parent's
\* pointer, and the child is finalized before its parent: nested transactions
\* are finalized in last-begun-first order.
C25_ChildBeforeParent == []C25_Safe /\ [][C25_Step]_vars

\* Three transactions nested in each other have been finalized, the outermost
\* one by a commit, while the other thread was free to call at any time.
C25_Witness ==
    \E a, b, c \in Ptrs :
       /\ parent[b] = a /\ parent[c] = b /\ parent[a] = 0
       /\ Finalized(c) = 1 /\ Finalized(b) = 1 /\ nCommit[a] = 1
       /\ hstat[a] = "gone"

\* A handle that is gone has had at most one abort, has no message with the
\* manager and no thread inside a call on it; a thread that panicked is in no
\* call.
C26_Safe ==
    /\ \A p \in Ptrs :
          /\ nAbort[p] <= 1
          /\ hstat[p] = "gone"
                => /\ \A m \in InFlight : m.ptr # p
                   /\ \A t \in Threads : cur[t] # p
    /\ \A t \in Threads : pc[t] = "panicked" => cur[t] = 0 /\ ~Replied(t)

\* The manager answers an Abort with the result of the one abort it made.  A
\* read-write drop that gets an error reply panics and does not return; a
\* read-only drop returns normally whatever code its abort returned.  Either
\* way the step sends nothing and the one abort stays the only one.
C26_Step ==
    /\ ManagerStep /\ mgr.type = "Abort"
          => /\ nAbort'[mgr.ptr] = nAbort[mgr.ptr] + 1
             /\ rx'[mgr.from].ok = (rx'[mgr.from].code \notin EngineErrors)
             /\ ~rx'[mgr.from].ok => rx'[mgr.from].err = rx'[mgr.from].code
    /\ \A t \in Threads :
          /\ pc[t] = "drop_wait" /\ pc'[t] # "drop_wait"
                => /\ IF rx[t].ok
                      THEN pc'[t] = "idle" /\ last'.op = "drop" /\ last'.ok
                      ELSE /\ pc'[t] = "panicked" /\ last'.op = "panic"
                           /\ ~last'.ok /\ last'.err = rx[t].code
                           /\ last'.code \in EngineErrors
                   /\ kind[cur[t]] = "RW" /\ last'.ptr = cur[t]
                   /\ nAbort[cur[t]] = 1 /\ nAbort' = nAbort /\ nCommit' = nCommit
                   /\ msgs' = msgs /\ mgr' = mgr
                   /\ hstat'[cur[t]] = "gone"
          /\ pc[t] = "direct_abort" /\ pc'[t] # "direct_abort"
                => /\ pc'[t] = "idle" /\ last'.op = "drop" /\ last'.ok
                   /\ kind[cur[t]] = "RO" /\ last'.ptr = cur[t]
                   /\ nAbort[cur[t]] = 0 /\ nAbort'[cur[t]] = 1
                   /\ msgs' = msgs /\ mgr' = mgr
                   /\ hstat'[cur[t]] = "gone"
          /\ pc[t] = "panicked" => pc'[t] = "panicked"

\* C26: an engine error from a drop-time abort of a read-write handle is not
\* turned into a normal completion: the manager replies with the error and
\* the drop panics.  For a read-only handle the direct abort's return code is
\* discarded and the drop completes normally.  In neither case is a second
\* abort or a retry issued.
C26_DropAbortError == []C26_Safe /\ [][C26_Step]_vars

\* The drop of a read-write handle has panicked on the engine's error, after
\* the one abort made for it.
C26_Witness ==
    /\ last.op = "panic" /\ last.code \in EngineErrors
    /\ kind[last.ptr] = "RW" /\ nAbort[last.ptr] = 1 /\ hstat[last.ptr] = "gone"
    /\ \E t \in Threads : pc[t] = "panicked"

\* The drop of a read-only handle has returned normally although its abort
\* returned an error.
C26_WitnessDiscarded ==
    /\ last.op = "drop" /\ last.ok /\ last.code \in EngineErrors
    /\ kind[last.ptr] = "RO" /\ nAbort[last.ptr] = 1 /\ hstat[last.ptr] = "gone"

====
